---- MODULE Spec2Model ----
(***************************************************************************)
(* MexcFuturesWebSocket (src/src/websocket.ts): the session object, the    *)
(* sockets it creates with `new WebSocket(url)`, the promises returned by  *)
(* connect(), and the two timers.  One action per caller operation, per    *)
(* transport notification and per timer callback; each action runs the     *)
(* whole handler, including the promise continuation it triggers.          *)
(***************************************************************************)
EXTENDS Integers, Sequences, FiniteSets, TLC

\* ---------------------------------------------------------------- bounds
\* Number of WebSocket objects the session may create (connect() calls,
\* caller-initiated or by the reconnect timer).
MaxSockets == 2
\* Largest value Date.now() returns to login().
MaxClock == 1

\* `this.ws = null`
NoSocket == 0
Sockets == 1..MaxSockets

\* ----------------------------------------------------------------- state
VARIABLES
  ws,              \* this.ws: the active transport handle (NoSocket = null)
  isConnected,     \* this.isConnected
  isLoggedIn,      \* this.isLoggedIn
  autoReconnect,   \* this.config.autoReconnect
  pingTimer,       \* this.pingTimer is non-null
  pingLive,        \* number of live setInterval timers
  reconnectTimer,  \* this.reconnectTimer: "null", "pending" or "fired"
  reconnectLive,   \* number of live (not yet fired) setTimeout timers
  sock,            \* state of every WebSocket object ever created
  promise,         \* state of the promise returned by the connect() that made it;
                   \* "pendingCatch": pending, with the reconnect timer's .catch;
                   \* "rejectedCaught": rejected, and that .catch has run
  errorListener,   \* the caller has registered ws.on("error", ...)
  last,            \* the operation that ran last, its inputs, the state before
                   \* and the state before of the promise of the socket it is about
  emitted,         \* events emitted to the caller by the last operation
  sent,            \* frames written to a socket by the last operation
  thrown,          \* where the last operation's exception went, if any
  scheduled,       \* number of scheduleReconnect() calls in the last operation
  afterDisconnect, \* disconnect() was called and connect() not called since
  acked            \* a login success acknowledgment has been processed on the
                   \* socket that is now this.ws

vars == <<ws, isConnected, isLoggedIn, autoReconnect, pingTimer, pingLive,
          reconnectTimer, reconnectLive, sock, promise, errorListener,
          last, emitted, sent, thrown, scheduled, afterDisconnect, acked>>

\* --------------------------------------------------------------- values
\* message.data: absent (undefined), or an object whose `success` is true or
\* is false/missing.
NoData == [present |-> FALSE, success |-> FALSE]
Payloads == { NoData, [present |-> TRUE, success |-> TRUE],
              [present |-> TRUE, success |-> FALSE] }

KnownMethods == { "order.update", "order.deal", "position.update",
                  "asset.update", "adl.level", "risk.limit", "plan.order",
                  "stop.order", "stop.planorder" }
Methods == KnownMethods \cup { "login", "personal.filter", "other", "none" }
Channels == { "pong", "rs.login", "rs.personal.filter", "rs.error", "none" }

\* WebSocketMessage: a decoded inbound message.
WebSocketMessage == [ method : Methods, channel : Channels, data : Payloads ]

\* A text frame: either JSON.parse throws on it, or it decodes to a message.
Frame(m) == [ ok |-> TRUE, msg |-> m ]
Malformed == [ ok |-> FALSE ]
AllFrames == { Malformed } \cup { Frame(m) : m \in WebSocketMessage }

\* The frames the server sends in the session specification: every login
\* message, and one or two of every other kind the router tells apart.
SessionFrames ==
  { Malformed }
  \cup { Frame(m) : m \in [ method : { "login" },
                            channel : { "rs.login", "rs.error", "none" },
                            data : Payloads ] }
  \cup { Frame(m) : m \in [ method : { "personal.filter" },
                            channel : { "rs.personal.filter" },
                            data : Payloads \ { NoData } ] }
  \cup { Frame(m) : m \in [ method : { "order.update", "other" },
                            channel : { "none" },
                            data : { [ present |-> TRUE, success |-> FALSE ] } ] }
  \cup { Frame(m) : m \in [ method : { "none" },
                            channel : { "pong", "rs.error" },
                            data : { [ present |-> TRUE, success |-> FALSE ] } ] }

\* The (code, reason) pairs a "close" notification carries.
CloseEvents == { [ code |-> 1000, reason |-> "bye" ], [ code |-> 1006, reason |-> "" ] }

\* WebSocket.readyState of a socket object.
readyState(x) ==
  CASE x = "CONNECTING" -> "CONNECTING"
    [] x = "OPEN" -> "OPEN"
    [] x \in { "ABORTED", "CLOSING", "FAILED" } -> "CLOSING"
    [] OTHER -> "CLOSED"

\* ---------------------------------------- the session as one record value
This ==
  [ ws |-> ws, isConnected |-> isConnected, isLoggedIn |-> isLoggedIn,
    autoReconnect |-> autoReconnect, pingTimer |-> pingTimer,
    pingLive |-> pingLive, reconnectTimer |-> reconnectTimer,
    reconnectLive |-> reconnectLive, sock |-> sock, promise |-> promise,
    emitted |-> <<>>, sent |-> <<>>, exc |-> FALSE,
    scheduled |-> 0 ]

\* `where` is where an exception that escapes the operation ends up.
Commit(st, where) ==
  /\ ws' = st.ws
  /\ isConnected' = st.isConnected
  /\ isLoggedIn' = st.isLoggedIn
  /\ autoReconnect' = st.autoReconnect
  /\ pingTimer' = st.pingTimer
  /\ pingLive' = st.pingLive
  /\ reconnectTimer' = st.reconnectTimer
  /\ reconnectLive' = st.reconnectLive
  /\ sock' = st.sock
  /\ promise' = st.promise
  /\ emitted' = st.emitted
  /\ sent' = st.sent
  /\ thrown' = IF st.exc THEN where ELSE "none"
  /\ scheduled' = st.scheduled

\* What the operation that runs next records about the state it starts from.
Pre ==
  [ ws |-> ws, isConnected |-> isConnected, isLoggedIn |-> isLoggedIn,
    autoReconnect |-> autoReconnect,
    pingTimer |-> pingTimer,
    connecting |-> (ws # NoSocket /\ sock[ws] = "CONNECTING"),
    acked |-> acked ]

Init ==
  /\ ws = NoSocket
  /\ isConnected = FALSE
  /\ isLoggedIn = FALSE
  /\ autoReconnect \in BOOLEAN
  /\ pingTimer = FALSE
  /\ pingLive = 0
  /\ reconnectTimer = "null"
  /\ reconnectLive = 0
  /\ sock = [ s \in Sockets |-> "NONE" ]
  /\ promise = [ s \in Sockets |-> "none" ]
  /\ errorListener \in BOOLEAN
  /\ last = [ op |-> "new", s |-> NoSocket, arg |-> NoData ]
  /\ emitted = <<>>
  /\ sent = <<>>
  /\ thrown = "none"
  /\ scheduled = 0
  /\ afterDisconnect = FALSE
  /\ acked = FALSE

\* ------------------------------------------------------ private helpers
\* EventEmitter.emit(name, data) with a listener present.
emit(st, name, data) ==
  [ st EXCEPT !.emitted = Append(@, [ name |-> name, data |-> data ]) ]

\* this.emit("error", cause): EventEmitter throws when "error" has no listener.
emitError(st, cause) ==
  IF errorListener THEN emit(st, "error", cause) ELSE [ st EXCEPT !.exc = TRUE ]

\* JSON.stringify of an outbound message: a filter entry whose `rules` is
\* undefined is written without the member.
stringifyFilter(f) ==
  IF f.rules.present THEN [ filter |-> f.filter, rules |-> f.rules.list ]
  ELSE [ filter |-> f.filter ]

stringify(message) ==
  IF message.method = "personal.filter"
  THEN [ method |-> "personal.filter",
         param |-> [ filters |->
           [ i \in 1..Len(message.param.filters) |->
               stringifyFilter(message.param.filters[i]) ] ] ]
  ELSE message

\* send() without the readyState check: the frame is handed to the socket
\* object whatever its state.
sendNoCheck(st, message) ==
  [ st EXCEPT !.sent = Append(@, [ s |-> st.ws, frame |-> stringify(message) ]) ]

send(st, message) ==
  IF st.ws = NoSocket \/ readyState(st.sock[st.ws]) # "OPEN"
  THEN [ st EXCEPT !.exc = TRUE ]
  ELSE [ st EXCEPT !.sent = Append(@, [ s |-> st.ws, frame |-> stringify(message) ]) ]

stopPing(st) ==
  IF st.pingTimer
  THEN [ st EXCEPT !.pingLive = @ - 1, !.pingTimer = FALSE ]
  ELSE st

startPing(st) ==
  LET a == stopPing(st)
  IN [ a EXCEPT !.pingLive = @ + 1, !.pingTimer = TRUE ]

clearReconnectTimer(st) ==
  IF st.reconnectTimer # "null"
  THEN [ st EXCEPT !.reconnectLive = IF st.reconnectTimer = "pending" THEN @ - 1 ELSE @,
                   !.reconnectTimer = "null" ]
  ELSE st

\* scheduleReconnect() without its clearReconnectTimer() call.
scheduleReconnectNoClear(st) ==
  [ st EXCEPT !.reconnectLive = @ + 1, !.reconnectTimer = "pending",
              !.scheduled = @ + 1 ]

\* The part of scheduleReconnect() that runs at once; the timer callback is
\* the action ReconnectFire.
scheduleReconnect(st) ==
  LET a == clearReconnectTimer(st)
  IN [ a EXCEPT !.reconnectLive = @ + 1, !.reconnectTimer = "pending",
                !.scheduled = @ + 1 ]

\* The socket object `new WebSocket(url)` returns: the first one not yet made.
NewSocket(st) ==
  CHOOSE s \in Sockets :
    /\ st.sock[s] = "NONE"
    /\ \A t \in Sockets : t < s => st.sock[t] # "NONE"

CanCreate == \E s \in Sockets : sock[s] = "NONE"

\* The synchronous part of connect(): the promise executor.
connect(st, who) ==
  LET n == NewSocket(st)
  IN [ st EXCEPT !.ws = n, !.sock[n] = "CONNECTING",
                 !.promise[n] = IF who = "reconnect" THEN "pendingCatch"
                                ELSE "pending" ]

Pending(p) == p \in { "pending", "pendingCatch" }

resolve(st, s) ==
  IF Pending(st.promise[s]) THEN [ st EXCEPT !.promise[s] = "resolved" ] ELSE st

\* reject(error) of a promise that has no .catch continuation.
rejectNoCatch(st, s) ==
  IF Pending(st.promise[s]) THEN [ st EXCEPT !.promise[s] = "rejected" ] ELSE st

\* reject(error); the promise made by the reconnect timer carries the
\* continuation .catch(() => this.scheduleReconnect()), which runs as a
\* microtask right after the handler that rejected it.
reject(st, s) ==
  IF Pending(st.promise[s])
  THEN IF st.promise[s] = "pendingCatch"
       THEN scheduleReconnect([ st EXCEPT !.promise[s] = "rejectedCaught" ])
       ELSE [ st EXCEPT !.promise[s] = "rejected" ]
  ELSE st

\* WebSocket.close() of the ws library: a connecting socket is aborted (its
\* "error" and "close" notifications follow), an open one starts closing.
closeSocket(st, s) ==
  CASE st.sock[s] = "CONNECTING" -> [ st EXCEPT !.sock[s] = "ABORTED" ]
    [] st.sock[s] = "OPEN" -> [ st EXCEPT !.sock[s] = "CLOSING" ]
    [] OTHER -> st

\* -------------------------------------------------------- message router
\* handlePrivateDataUpdate with every case of the switch gone but the default.
handlePrivateDataUpdateDefaultOnly(st, message) == emit(st, "message", message)

handlePrivateDataUpdate(st, message) ==
  CASE message.method = "order.update" -> emit(st, "orderUpdate", message.data)
    [] message.method = "order.deal" -> emit(st, "orderDeal", message.data)
    [] message.method = "position.update" -> emit(st, "positionUpdate", message.data)
    [] message.method = "asset.update" -> emit(st, "assetUpdate", message.data)
    [] message.method = "adl.level" -> emit(st, "adlLevel", message.data)
    [] message.method = "risk.limit" -> emit(st, "riskLimit", message.data)
    [] message.method = "plan.order" -> emit(st, "planOrder", message.data)
    [] message.method = "stop.order" -> emit(st, "stopOrder", message.data)
    [] message.method = "stop.planorder" -> emit(st, "stopPlanOrder", message.data)
    [] OTHER -> emit(st, "message", message)

\* The login branch with the assignment to isLoggedIn left out.
handleLoginNoFlag(st, message) ==
  IF message.data.present /\ message.data.success
  THEN emit(st, "login", message.data)
  ELSE emit(st, "loginError", message.data)

\* The login branch clearing isLoggedIn when the login is refused.
handleLoginFailureLogsOut(st, message) ==
  IF message.data.present /\ message.data.success
  THEN emit([ st EXCEPT !.isLoggedIn = TRUE ], "login", message.data)
  ELSE emit([ st EXCEPT !.isLoggedIn = FALSE ], "loginError", message.data)

\* The login branch of handleMessage.
handleLogin(st, message) ==
  IF message.data.present /\ message.data.success
  THEN emit([ st EXCEPT !.isLoggedIn = TRUE ], "login", message.data)
  ELSE emit(st, "loginError", message.data)

\* handleMessage treating an error-channel message as the end of the
\* connection: it forces the session down as the close handler does.
handleMessageErrorCloses(st, message) ==
  IF message.channel = "pong" THEN emit(st, "pong", message.data)
  ELSE IF message.method = "login" THEN handleLogin(st, message)
  ELSE IF message.channel = "rs.error"
       THEN scheduleReconnect(stopPing(
              emitError([ st EXCEPT !.isConnected = FALSE ],
                        [ error |-> "Error", message |-> message.data ])))
  ELSE handlePrivateDataUpdate(st, message)

handleMessage(st, message) ==
  IF message.channel = "pong" THEN emit(st, "pong", message.data)
  ELSE IF message.method = "login" THEN handleLogin(st, message)
  ELSE IF message.channel = "rs.error"
       THEN emitError(st, [ error |-> "Error", message |-> message.data ])
  ELSE handlePrivateDataUpdate(st, message)

\* ------------------------------------------- handlers set up by connect()
\* The open handler without startPing().
onOpenNoPing(st, s) ==
  resolve(emit([ st EXCEPT !.isConnected = TRUE ], "connected", NoData), s)

onOpen(st, s) ==
  LET a == [ st EXCEPT !.isConnected = TRUE ]
      b == startPing(a)
      c == emit(b, "connected", NoData)
  IN resolve(c, s)

\* The message handler only putting the frame aside for a later tick.
onMessageDeferred(st, frame) == st

\* try { handleMessage(JSON.parse(data)) } catch (error) { emit("error") }
onMessage(st, frame) ==
  IF ~frame.ok THEN emitError(st, [ error |-> "SyntaxError", message |-> NoData ])
  ELSE LET a == handleMessage(st, frame.msg)
       IN IF a.exc
          THEN emitError([ a EXCEPT !.exc = FALSE ],
                         [ error |-> "Error", message |-> frame.msg.data ])
          ELSE a

\* The message handler when the caller's listener of the event being
\* dispatched throws: the exception leaves emit() and handleMessage and is
\* caught by the handler's catch block, which emits "error" with it.  If the
\* event being dispatched was "error" itself, the listener that threw is
\* called again by the catch block and throws again.
onMessageListenerThrows(st, frame) ==
  LET a == handleMessage(st, frame.msg)
  IN IF a.exc THEN onMessage(st, frame)
     ELSE IF a.emitted[Len(a.emitted)].name = "error" THEN [ a EXCEPT !.exc = TRUE ]
     ELSE emitError(a, [ error |-> "Error", message |-> frame.msg.data ])

\* The close handler without its stopPing() call.
onCloseKeepsPing(st, code, reason) ==
  LET a == [ st EXCEPT !.isConnected = FALSE, !.isLoggedIn = FALSE ]
      c == emit(a, "disconnected", [ code |-> code, reason |-> reason ])
  IN IF c.autoReconnect THEN scheduleReconnect(c) ELSE c

\* The close handler scheduling a reconnect whatever config.autoReconnect is.
onCloseAlways(st, code, reason) ==
  LET a == [ st EXCEPT !.isConnected = FALSE, !.isLoggedIn = FALSE ]
      b == stopPing(a)
      c == emit(b, "disconnected", [ code |-> code, reason |-> reason ])
  IN scheduleReconnect(c)

onClose(st, code, reason) ==
  LET a == [ st EXCEPT !.isConnected = FALSE, !.isLoggedIn = FALSE ]
      b == stopPing(a)
      c == emit(b, "disconnected", [ code |-> code, reason |-> reason ])
  IN IF c.autoReconnect THEN scheduleReconnect(c) ELSE c

onError(st, s) ==
  LET a == emitError(st, [ error |-> "transport" ])
  IN IF a.exc THEN a ELSE reject(a, s)

\* ------------------------------------------------------ public operations
\* disconnect() without the assignment config.autoReconnect = false.
disconnectKeepsAuto(st) ==
  LET b == stopPing(st)
      c == clearReconnectTimer(b)
      d == IF c.ws # NoSocket
           THEN [ closeSocket(c, c.ws) EXCEPT !.ws = NoSocket ]
           ELSE c
  IN [ d EXCEPT !.isConnected = FALSE, !.isLoggedIn = FALSE ]

\* disconnect() without its clearReconnectTimer() call.
disconnectNoClear(st) ==
  LET a == [ st EXCEPT !.autoReconnect = FALSE ]
      b == stopPing(a)
      d == IF b.ws # NoSocket
           THEN [ closeSocket(b, b.ws) EXCEPT !.ws = NoSocket ]
           ELSE b
  IN [ d EXCEPT !.isConnected = FALSE, !.isLoggedIn = FALSE ]

disconnect(st) ==
  LET a == [ st EXCEPT !.autoReconnect = FALSE ]
      b == stopPing(a)
      c == clearReconnectTimer(b)
      d == IF c.ws # NoSocket
           THEN [ closeSocket(c, c.ws) EXCEPT !.ws = NoSocket ]
           ELSE c
  IN [ d EXCEPT !.isConnected = FALSE, !.isLoggedIn = FALSE ]

Digits == << "0", "1", "2", "3", "4", "5", "6", "7", "8", "9" >>

\* Number.prototype.toString(): the decimal digits.
RECURSIVE toString(_)
toString(n) ==
  IF n < 10 THEN << Digits[n + 1] >>
  ELSE toString(n \div 10) \o << Digits[(n % 10) + 1] >>

\* config.apiKey and config.secretKey, as character sequences.
apiKey == << "K" >>
secretKey == << "S" >>

\* crypto.createHmac("sha256", key).update(text).digest("hex"), kept symbolic.
createHmac(key, text) == [ hmac |-> "sha256", key |-> key, text |-> text ]

LoginMessage(subscribe, now) ==
  LET reqTime == toString(now)
      signature == createHmac(secretKey, apiKey \o reqTime)
  IN [ subscribe |-> subscribe, method |-> "login",
       param |-> [ apiKey |-> apiKey, signature |-> signature,
                   reqTime |-> reqTime ] ]

\* login() without the isConnected check.
loginNoCheck(st, subscribe, now) == send(st, LoginMessage(subscribe, now))

\* `now` is what Date.now() returns to this call.
login(st, subscribe, now) ==
  IF ~st.isConnected THEN [ st EXCEPT !.exc = TRUE ]
  ELSE send(st, LoginMessage(subscribe, now))

\* An optional argument: absent (undefined) or a list.
Undefined == [ present |-> FALSE, list |-> <<>> ]
Some(list) == [ present |-> TRUE, list |-> list ]

\* setPersonalFilter() sending an empty list whatever it is given.
setPersonalFilterNoList(st, filters) ==
  IF ~st.isLoggedIn THEN [ st EXCEPT !.exc = TRUE ]
  ELSE send(st, [ method |-> "personal.filter", param |-> [ filters |-> <<>> ] ])

setPersonalFilter(st, filters) ==
  IF ~st.isLoggedIn THEN [ st EXCEPT !.exc = TRUE ]
  ELSE send(st, [ method |-> "personal.filter",
                  param |-> [ filters |-> IF filters.present THEN filters.list
                                          ELSE <<>> ] ])

subscribeToOrders(st, symbols) ==
  setPersonalFilter(st, Some(<< [ filter |-> "order", rules |-> symbols ] >>))

subscribeToOrderDeals(st, symbols) ==
  setPersonalFilter(st, Some(<< [ filter |-> "order.deal", rules |-> symbols ] >>))

subscribeToPositions(st, symbols) ==
  setPersonalFilter(st, Some(<< [ filter |-> "position", rules |-> symbols ] >>))

subscribeToAssets(st) ==
  setPersonalFilter(st, Some(<< [ filter |-> "asset", rules |-> Undefined ] >>))

subscribeToADLLevels(st) ==
  setPersonalFilter(st, Some(<< [ filter |-> "adl.level", rules |-> Undefined ] >>))

subscribeToMultiple(st, filters) == setPersonalFilter(st, filters)

subscribeToAll(st) == setPersonalFilter(st, Some(<<>>))

\* ------------------------------------------------------- timer callbacks
pingCallback(st) ==
  IF st.isConnected THEN send(st, [ method |-> "ping" ]) ELSE st

WillReconnect(st) == ~st.isConnected /\ st.autoReconnect

reconnectCallback(st) ==
  IF WillReconnect(st) THEN connect(st, "reconnect") ELSE st

\* ------------------------------------------------------------ the inputs
SymbolLists == { Undefined, Some(<< "BTC_USDT" >>) }

FilterLists ==
  { Undefined, Some(<<>>),
    Some(<< [ filter |-> "order", rules |-> Some(<< "BTC_USDT" >>) ],
            [ filter |-> "asset", rules |-> Undefined ] >>) }

\* ------------------------------------------------------------ the actions
\* The operation took the success branch of the login acknowledgment.
LoginAcked(st) == \E i \in 1..Len(st.emitted) : st.emitted[i].name = "login"

Do(op, s, arg, st, where) ==
  /\ last' = [ op |-> op, s |-> s, arg |-> arg, pre |-> Pre,
                promise |-> IF s = NoSocket THEN "none" ELSE promise[s] ]
  /\ Commit(st, where)
  /\ afterDisconnect' = CASE op = "disconnect" -> TRUE
                           [] op = "connect" -> FALSE
                           [] OTHER -> afterDisconnect
  /\ acked' = IF st.ws # ws \/ (st.ws # NoSocket /\ st.sock[st.ws] = "CONNECTING")
               THEN FALSE
               ELSE IF op = "message" /\ s = ws /\ LoginAcked(st) THEN TRUE
               ELSE acked
  /\ UNCHANGED errorListener

Connect ==
  /\ CanCreate
  /\ Do("connect", NewSocket(This), NoData, connect(This, "caller"), "caller")

Disconnect == Do("disconnect", NoSocket, NoData, disconnect(This), "caller")

Login == \E subscribe \in BOOLEAN, now \in 0..MaxClock :
  Do("login", NoSocket, [ subscribe |-> subscribe, now |-> now ],
     login(This, subscribe, now), "rejected")

SetPersonalFilter == \E filters \in FilterLists :
  Do("setPersonalFilter", NoSocket, filters, setPersonalFilter(This, filters), "caller")

SubscribeToOrders == \E symbols \in SymbolLists :
  Do("subscribeToOrders", NoSocket, symbols, subscribeToOrders(This, symbols), "caller")

SubscribeToOrderDeals == \E symbols \in SymbolLists :
  Do("subscribeToOrderDeals", NoSocket, symbols,
     subscribeToOrderDeals(This, symbols), "caller")

SubscribeToPositions == \E symbols \in SymbolLists :
  Do("subscribeToPositions", NoSocket, symbols,
     subscribeToPositions(This, symbols), "caller")

SubscribeToAssets ==
  Do("subscribeToAssets", NoSocket, NoData, subscribeToAssets(This), "caller")

SubscribeToADLLevels ==
  Do("subscribeToADLLevels", NoSocket, NoData, subscribeToADLLevels(This), "caller")

SubscribeToMultiple == \E filters \in FilterLists :
  Do("subscribeToMultiple", NoSocket, filters, subscribeToMultiple(This, filters), "caller")

SubscribeToAll ==
  Do("subscribeToAll", NoSocket, NoData, subscribeToAll(This), "caller")

\* Transport notifications.  The ws library emits "open" once for a socket
\* that is connecting; "message" while the socket is open or closing after
\* close(); "error" for a failed or aborted handshake or a failing open
\* socket, always followed by "close"; "close" once, last.
SocketOpen == \E s \in Sockets :
  /\ sock[s] = "CONNECTING"
  /\ Do("open", s, NoData, onOpen([ This EXCEPT !.sock[s] = "OPEN" ], s), "transport")

SocketMessage == \E s \in Sockets, frame \in SessionFrames :
  /\ sock[s] \in { "OPEN", "CLOSING" }
  /\ Do("message", s, frame, onMessage(This, frame), "transport")

SocketError == \E s \in Sockets :
  /\ sock[s] \in { "CONNECTING", "ABORTED", "OPEN" }
  /\ Do("error", s, NoData, onError([ This EXCEPT !.sock[s] = "FAILED" ], s), "transport")

SocketClose == \E s \in Sockets, e \in CloseEvents :
  /\ sock[s] \in { "OPEN", "CLOSING", "FAILED" }
  /\ Do("close", s, e,
        onClose([ This EXCEPT !.sock[s] = "CLOSED" ], e.code, e.reason), "transport")

\* The setInterval callback of startPing().
PingTick ==
  /\ pingLive > 0
  /\ Do("ping", NoSocket, NoData, pingCallback(This), "timer")

\* The setTimeout callback of scheduleReconnect(): the timer is spent.
ReconnectFire ==
  /\ reconnectLive > 0
  /\ WillReconnect(This) => CanCreate
  /\ Do("reconnect", NoSocket, NoData,
        reconnectCallback([ This EXCEPT
          !.reconnectLive = @ - 1,
          !.reconnectTimer = IF @ = "pending" THEN "fired" ELSE @ ]), "timer")

Next ==
  \/ Connect
  \/ Disconnect
  \/ Login
  \/ SetPersonalFilter
  \/ SubscribeToOrders
  \/ SubscribeToOrderDeals
  \/ SubscribeToPositions
  \/ SubscribeToAssets
  \/ SubscribeToADLLevels
  \/ SubscribeToMultiple
  \/ SubscribeToAll
  \/ SocketOpen
  \/ SocketMessage
  \/ SocketError
  \/ SocketClose
  \/ PingTick
  \/ ReconnectFire

Spec == Init /\ [][Next]_vars

\* ------------------------------------ reconnecting without a socket limit
\* A closed WebSocket object gets no further notification and is garbage:
\* its place can be taken by a socket made later, so that the number of
\* connect attempts is not limited by the number of socket objects.
forget(st, s) == [ st EXCEPT !.sock[s] = "NONE", !.promise[s] = "none" ]

\* The "close" notification, after which the socket object is forgotten.
SocketCloseForget == \E s \in Sockets, e \in CloseEvents :
  /\ sock[s] \in { "OPEN", "CLOSING", "FAILED" }
  /\ Do("close", s, e,
        forget(onClose([ This EXCEPT !.sock[s] = "CLOSED" ], e.code, e.reason), s),
        "transport")

\* The session with socket objects forgotten once they have closed: any
\* number of connections, one after the other or side by side.
NextForget ==
  \/ Connect
  \/ Disconnect
  \/ Login
  \/ SetPersonalFilter
  \/ SocketOpen
  \/ SocketMessage
  \/ SocketError
  \/ SocketCloseForget
  \/ PingTick
  \/ ReconnectFire

SpecForget == Init /\ [][NextForget]_vars

\* connect() by a caller that serializes its lifecycle calls: it does not
\* call connect() while a socket of the session is connecting or open.
ConnectSerialized ==
  /\ \A s \in Sockets : sock[s] \notin { "CONNECTING", "OPEN" }
  /\ Connect

\* disconnect() is not called: auto-reconnect stays as configured.
NextReconnect ==
  \/ ConnectSerialized
  \/ SocketOpen
  \/ SocketError
  \/ SocketCloseForget
  \/ ReconnectFire

\* Timers fire; the ws library delivers the "close" of a failed socket; a
\* transport that is tried again and again eventually opens.
FairReconnect ==
  /\ WF_vars(ReconnectFire)
  /\ WF_vars(SocketCloseForget /\ sock[last'.s] = "FAILED")
  /\ SF_vars(SocketOpen)

SpecReconnect == Init /\ [][NextReconnect]_vars /\ FairReconnect

\* ------------------------------- a session configured with autoReconnect
\* new MexcFuturesWebSocket({ ..., autoReconnect: true }), the default.
InitAuto == Init /\ autoReconnect

\* The lifecycle of the session: the caller's connect() and disconnect(),
\* the transport notifications and the reconnect timer.
NextAuto ==
  \/ Connect
  \/ Disconnect
  \/ SocketOpen
  \/ SocketError
  \/ SocketClose
  \/ ReconnectFire

SpecAuto == InitAuto /\ [][NextAuto]_vars

\* ------------------------------------------- the router on every message
\* The session after `await ws.connect()`: the first socket is open.
InitRouter ==
  /\ ws = 1
  /\ isConnected = TRUE
  /\ isLoggedIn = FALSE
  /\ autoReconnect \in BOOLEAN
  /\ pingTimer = TRUE
  /\ pingLive = 1
  /\ reconnectTimer = "null"
  /\ reconnectLive = 0
  /\ sock = [ s \in Sockets |-> IF s = 1 THEN "OPEN" ELSE "NONE" ]
  /\ promise = [ s \in Sockets |-> IF s = 1 THEN "resolved" ELSE "none" ]
  /\ errorListener \in BOOLEAN
  /\ last = [ op |-> "open", s |-> 1, arg |-> NoData,
              pre |-> [ ws |-> 1, isConnected |-> FALSE, isLoggedIn |-> FALSE,
                        autoReconnect |-> autoReconnect, pingTimer |-> FALSE,
                        connecting |-> TRUE, acked |-> FALSE ],
              promise |-> "pending" ]
  /\ emitted = << [ name |-> "connected", data |-> NoData ] >>
  /\ sent = <<>>
  /\ thrown = "none"
  /\ scheduled = 0
  /\ afterDisconnect = FALSE
  /\ acked = FALSE

\* The "message" notification with any text frame.
RouterMessage == \E s \in Sockets, frame \in AllFrames :
  /\ sock[s] \in { "OPEN", "CLOSING" }
  /\ Do("message", s, frame, onMessage(This, frame), "transport")

\* The "message" notification with a decoded message whose event is
\* delivered to a listener that throws.
RouterListenerThrows == \E s \in Sockets, frame \in AllFrames \ { Malformed } :
  /\ sock[s] \in { "OPEN", "CLOSING" }
  /\ Do("messageListenerThrows", s, frame, onMessageListenerThrows(This, frame),
        "transport")

NextRouter == RouterMessage \/ RouterListenerThrows

SpecRouter == InitRouter /\ [][NextRouter]_vars

\* ================================================================ claims
LiveSockets == { s \in Sockets : sock[s] \in { "CONNECTING", "OPEN" } }

Created == { s \in Sockets : sock[s] # "NONE" }

SubscribeOps ==
  { "setPersonalFilter", "subscribeToOrders", "subscribeToOrderDeals",
    "subscribeToPositions", "subscribeToAssets", "subscribeToADLLevels",
    "subscribeToMultiple", "subscribeToAll" }

\* The last operation processed a login acknowledgment: method "login" on
\* the login-response channel.
LastIsLoginAck ==
  /\ last.op = "message"
  /\ last.arg.ok
  /\ last.arg.msg.method = "login"
  /\ last.arg.msg.channel = "rs.login"

\* C1: LoggedIn is true only while the session is Connected, and every
\* transition to Disconnected (a close notification, disconnect()) leaves
\* LoggedIn false.
C1_LoggedInOnlyWhileConnected ==
  /\ isLoggedIn => isConnected
  /\ last.op \in { "close", "disconnect" } => ~isLoggedIn

\* C2: at most one socket of the session is connecting or open.
C2_OneLiveTransport == Cardinality(LiveSockets) <= 1

\* C3: at most one heartbeat timer and at most one reconnect timer are live,
\* and the live one is the one the session holds the handle of.
C3_OneTimerOfEachKind ==
  /\ pingLive = (IF pingTimer THEN 1 ELSE 0)
  /\ reconnectLive = (IF reconnectTimer = "pending" THEN 1 ELSE 0)

\* C3 witness: a transport opened while a heartbeat timer was already live,
\* and one heartbeat timer is live afterwards.
C3_Witness == last.op = "open" /\ last.pre.pingTimer /\ pingLive = 1

\* C4: after a transport's open notification the session is Connected, a
\* heartbeat timer is live, exactly one "connected" event was emitted and the
\* promise of the connect() that made the transport is resolved.
C4_OpenConnects ==
  last.op = "open" =>
    /\ isConnected
    /\ pingTimer /\ pingLive = 1
    /\ emitted = << [ name |-> "connected", data |-> NoData ] >>
    /\ promise[last.s] = "resolved"

C4_Witness ==
  last.op = "open" /\ ~last.pre.isConnected /\ promise[last.s] = "resolved"

\* C5: from disconnect() until the caller's next connect() the session is
\* Disconnected with LoggedIn false, no heartbeat timer is live and no
\* reconnect timer is scheduled.
C5_QuietAfterDisconnect ==
  afterDisconnect =>
    /\ ~isConnected
    /\ ~isLoggedIn
    /\ pingLive = 0
    /\ reconnectLive = 0

\* C6: a close notification stops the heartbeat, sets Disconnected and
\* LoggedIn false, emits exactly one "disconnected" event with the code and
\* reason, and schedules a reconnect iff auto-reconnect was on.
C6_CloseTearsDown ==
  last.op = "close" =>
    /\ ~isConnected
    /\ ~isLoggedIn
    /\ ~pingTimer /\ pingLive = 0
    /\ emitted = << [ name |-> "disconnected",
                      data |-> [ code |-> last.arg.code, reason |-> last.arg.reason ] ] >>
    /\ scheduled = (IF last.pre.autoReconnect THEN 1 ELSE 0)
    /\ last.pre.autoReconnect => reconnectTimer = "pending" /\ reconnectLive = 1

C6_Witness ==
  /\ last.op = "close"
  /\ last.pre.isLoggedIn
  /\ last.pre.autoReconnect
  /\ reconnectLive = 1

\* C7: connect() while Connecting or Connected fails, makes no second
\* transport and leaves the active transport handle as it was.
C7_ConnectRejectedWhenBusy ==
  (last.op = "connect" /\ (last.pre.isConnected \/ last.pre.connecting)) =>
    /\ thrown # "none" \/ promise[last.s] = "rejected"
    /\ ws = last.pre.ws
    /\ sock[last.s] = "NONE"

\* C8: login() while not Connected fails and sends no frame.
C8_LoginNeedsConnected ==
  (last.op = "login" /\ ~last.pre.isConnected) =>
    thrown = "rejected" /\ sent = <<>>

\* C8 witness: login() called while the connect attempt is still pending.
C8_Witness ==
  /\ last.op = "login"
  /\ ~last.pre.isConnected
  /\ last.pre.connecting
  /\ thrown = "rejected"

\* C9: setPersonalFilter and the subscribe helpers, called when no login
\* success acknowledgment has been processed on the current connection, fail
\* and send no frame.
C9_SubscribeNeedsLoginAck ==
  (last.op \in SubscribeOps /\ ~last.pre.acked) =>
    thrown = "caller" /\ sent = <<>>

\* C10: a login acknowledgment with success true sets LoggedIn and emits
\* exactly one "login" event with the payload; one with success false or no
\* payload leaves LoggedIn as it was (false stays false) and emits exactly
\* one "loginError" event with the payload.
C10_LoginAck ==
  LastIsLoginAck =>
    IF last.arg.msg.data.present /\ last.arg.msg.data.success
    THEN /\ isLoggedIn
         /\ emitted = << [ name |-> "login", data |-> last.arg.msg.data ] >>
    ELSE /\ isLoggedIn = last.pre.isLoggedIn
         /\ emitted = << [ name |-> "loginError", data |-> last.arg.msg.data ] >>

\* C10 witness: a login success acknowledgment logged the session in.
C10_Witness ==
  /\ LastIsLoginAck
  /\ last.arg.msg.data.success
  /\ ~last.pre.isLoggedIn
  /\ isLoggedIn

\* The acknowledgment rules of the router: the heartbeat reply channel, the
\* login acknowledgment, the filter acknowledgment, the error channel.
MatchesAckRule(m) ==
  \/ m.channel \in { "pong", "rs.error" }
  \/ m.method = "login"
  \/ m.method = "personal.filter" /\ m.channel = "rs.personal.filter"

\* The event a push of a known method is delivered as.
PushEvent(method) ==
  CASE method = "order.update" -> "orderUpdate"
    [] method = "order.deal" -> "orderDeal"
    [] method = "position.update" -> "positionUpdate"
    [] method = "asset.update" -> "assetUpdate"
    [] method = "adl.level" -> "adlLevel"
    [] method = "risk.limit" -> "riskLimit"
    [] method = "plan.order" -> "planOrder"
    [] method = "stop.order" -> "stopOrder"
    [] method = "stop.planorder" -> "stopPlanOrder"

C12_MalformedFrameContained ==
  (last.op = "message" /\ ~last.arg.ok) =>
    /\ thrown = "none"
    /\ Len(emitted) = 1 /\ emitted[1].name = "error"
    /\ ws = last.pre.ws
    /\ isConnected = last.pre.isConnected
    /\ isLoggedIn = last.pre.isLoggedIn
    /\ pingTimer = last.pre.pingTimer

\* The filter list written to the wire matches the list given: the same
\* length, the same filter names in the same order, the same rules.
SameFilters(wire, given) ==
  /\ Len(wire) = Len(given)
  /\ \A i \in 1..Len(given) :
       /\ wire[i].filter = given[i].filter
       /\ given[i].rules.present => wire[i].rules = given[i].rules.list

\* C13: setPersonalFilter(filters), and subscribeToAll(), called while
\* logged in with the active transport open, write exactly one frame
\* {method: "personal.filter", param: {filters}} with the given list in the
\* given order, the empty list when the list is absent or empty, and change
\* nothing else of the session.
C13_FilterFrame ==
  ( /\ last.op \in { "setPersonalFilter", "subscribeToAll" }
    /\ last.pre.isLoggedIn
    /\ last.pre.ws # NoSocket
    /\ sock[last.pre.ws] = "OPEN" ) =>
    /\ thrown = "none"
    /\ emitted = <<>>
    /\ Len(sent) = 1
    /\ sent[1].s = last.pre.ws
    /\ sent[1].frame.method = "personal.filter"
    /\ DOMAIN sent[1].frame = { "method", "param" }
    /\ DOMAIN sent[1].frame.param = { "filters" }
    /\ SameFilters(sent[1].frame.param.filters,
                   IF last.op = "setPersonalFilter" /\ last.arg.present
                   THEN last.arg.list ELSE <<>>)
    /\ ws = last.pre.ws
    /\ isConnected = last.pre.isConnected
    /\ isLoggedIn = last.pre.isLoggedIn
    /\ autoReconnect = last.pre.autoReconnect
    /\ pingTimer = last.pre.pingTimer
    /\ scheduled = 0

\* C13 witness: a list of two filters was sent.
C13_Witness ==
  /\ last.op = "setPersonalFilter"
  /\ last.pre.isLoggedIn
  /\ last.arg.present
  /\ Len(last.arg.list) = 2
  /\ Len(sent) = 1
  /\ sent[1].frame.param.filters[2].filter = "asset"

\* A failed reconnect attempt leaves a reconnect timer scheduled: the .catch
\* of the attempt's promise schedules one when the promise is rejected, and
\* the close notification schedules one while auto-reconnect is on.
C14_Rescheduled ==
  /\ (last.op = "error" /\ last.promise = "pendingCatch" /\ thrown = "none") =>
       /\ promise[last.s] = "rejectedCaught"
       /\ scheduled = 1
       /\ reconnectTimer = "pending" /\ reconnectLive = 1
  /\ (last.op = "close" /\ last.promise \in { "pendingCatch", "rejectedCaught" }
        /\ last.pre.autoReconnect) =>
       reconnectTimer = "pending" /\ reconnectLive = 1

C15_NoReplayAfterReconnect ==
  /\ (last.op = "open" /\ last.promise = "pendingCatch") =>
       ~isLoggedIn /\ sent = <<>>
  /\ \A i \in 1..Len(sent) :
       sent[i].frame.method \in { "login", "personal.filter" } =>
         last.op \in { "login" } \cup SubscribeOps

\* C16: when the promise returned by login() resolves the session is logged
\* in, so subscribeToAll() called in its continuation is accepted and
\* writes its frame.
C16_LoginResolvedLoggedIn ==
  (last.op = "login" /\ thrown = "none") =>
    /\ isLoggedIn
    /\ ~subscribeToAll(This).exc
    /\ Len(subscribeToAll(This).sent) = 1

\* C17: login(subscribe) called while Connected writes exactly one login
\* frame with the subscribe flag and completes at once, without waiting for
\* the acknowledgment; login() never changes LoggedIn.
C17_LoginFireAndForget ==
  last.op = "login" =>
    /\ isLoggedIn = last.pre.isLoggedIn
    /\ last.pre.isConnected =>
         /\ thrown = "none"
         /\ Len(sent) = 1
         /\ sent[1].frame.method = "login"
         /\ sent[1].frame.subscribe = last.arg.subscribe

\* C18: after disconnect() called while a connect attempt is pending, the
\* attempt's transport opening late does not set Connected, does not start
\* the heartbeat and emits no "connected" event: the session stays
\* Disconnected until the caller connects again.
C18_NoLateOpen ==
  (last.op = "open" /\ afterDisconnect) =>
    /\ ~isConnected
    /\ ~pingTimer /\ pingLive = 0
    /\ emitted = <<>>

\* The last notification belongs to a caller's connect attempt that failed
\* before opening: its error, or the close that follows the error.
CallerConnectFailed ==
  \/ last.op = "error" /\ last.promise = "pending"
  \/ last.op = "close" /\ last.promise \in { "pending", "rejected" }

\* C19: when a caller's connect() fails with a transport error before
\* opening, the returned promise is rejected and the session is left as
\* before the call: Disconnected, LoggedIn false, no heartbeat timer, and no
\* reconnect scheduled by the failed attempt.
C19_FailedConnectLeavesNothing ==
  /\ (last.op = "error" /\ last.promise = "pending") =>
       promise[last.s] = "rejected" /\ thrown = "none"
  /\ CallerConnectFailed =>
       /\ ~isConnected
       /\ ~isLoggedIn
       /\ ~pingTimer /\ pingLive = 0
       /\ scheduled = 0

\* C20: disconnect() called when the session is already disconnected (never
\* connected, after a disconnect(), after a transport close) throws nothing,
\* emits no event and leaves the session Disconnected with LoggedIn false
\* and no live timer; after any disconnect() a second one changes nothing.
C20_DisconnectIdempotent ==
  /\ (last.op = "disconnect" /\ ~last.pre.isConnected /\ ~last.pre.connecting) =>
       /\ thrown = "none"
       /\ emitted = <<>>
       /\ ~isConnected
       /\ ~isLoggedIn
       /\ ~pingTimer /\ pingLive = 0
       /\ reconnectTimer = "null" /\ reconnectLive = 0
  /\ last.op = "disconnect" => disconnect(This) = This

\* C20 witness: disconnect() after a transport close that scheduled a
\* reconnect.
C20_Witness ==
  /\ last.op = "disconnect"
  /\ ~last.pre.isConnected
  /\ last.pre.autoReconnect
  /\ last.pre.ws # NoSocket
  /\ sock[last.pre.ws] = "CLOSED"
  /\ reconnectLive = 0

\* C21: processing one decoded message emits exactly one event to the
\* caller, whatever its method, channel and payload.
C21_OneEventPerMessage ==
  (last.op = "message" /\ last.arg.ok) => Len(emitted) = 1

\* C22: a message with method "login" is a login acknowledgment only on
\* the login-response channel; on another channel it leaves LoggedIn as it
\* was and is dispatched by the later rules: as an "error" event on the
\* error channel, as "message" otherwise.
C22_LoginAckNeedsChannel ==
  ( /\ last.op = "message"
    /\ last.arg.ok
    /\ last.arg.msg.method = "login"
    /\ last.arg.msg.channel \notin { "rs.login", "pong" } ) =>
    /\ isLoggedIn = last.pre.isLoggedIn
    /\ Len(emitted) = 1
    /\ emitted[1].name = (IF last.arg.msg.channel = "rs.error" THEN "error"
                          ELSE "message")

\* C23: a filter acknowledgment (method "personal.filter" on the
\* filter-response channel) is delivered as one event of its own, a success
\* event when its payload's success is true and a failure event otherwise,
\* and never as the catch-all "message" event.
C23_FilterAck ==
  ( /\ last.op = "message"
    /\ last.arg.ok
    /\ last.arg.msg.method = "personal.filter"
    /\ last.arg.msg.channel = "rs.personal.filter" ) =>
    /\ Len(emitted) = 1
    /\ emitted[1].name # "message"
    /\ emitted[1].data = last.arg.msg.data

\* The last message is a rejection by the server: a login acknowledgment
\* without success, a filter acknowledgment without success, or a message
\* on the error channel.
RemoteRejection ==
  /\ last.op = "message"
  /\ last.arg.ok
  /\ \/ /\ last.arg.msg.method = "login"
        /\ last.arg.msg.channel = "rs.login"
        /\ ~(last.arg.msg.data.present /\ last.arg.msg.data.success)
     \/ /\ last.arg.msg.method = "personal.filter"
        /\ last.arg.msg.channel = "rs.personal.filter"
        /\ ~(last.arg.msg.data.present /\ last.arg.msg.data.success)
     \/ /\ last.arg.msg.channel = "rs.error"
        /\ last.arg.msg.method # "login"

\* C24: processing a rejection by the server leaves the connection status,
\* the active transport, the socket it came on and the heartbeat timer as
\* they were, and schedules no reconnect.
C24_RejectionKeepsConnection ==
  RemoteRejection =>
    /\ isConnected = last.pre.isConnected
    /\ ws = last.pre.ws
    /\ sock[last.s] \in { "OPEN", "CLOSING" }
    /\ pingTimer = last.pre.pingTimer
    /\ pingLive = (IF pingTimer THEN 1 ELSE 0)
    /\ scheduled = 0

\* C24 witness: an error-channel message was processed on the open active
\* transport of a Connected session.
C24_Witness ==
  /\ RemoteRejection
  /\ last.arg.msg.channel = "rs.error"
  /\ last.s = ws
  /\ sock[ws] = "OPEN"
  /\ isConnected /\ pingTimer

\* C25: a heartbeat tick while Connected writes exactly one frame
\* {method: "ping"} to the active transport; a ping frame is written only by
\* a tick, and only while Connected; an inbound message on the pong channel
\* emits one "pong" event with its data and changes nothing of the session.
C25_Heartbeat ==
  /\ (last.op = "ping" /\ last.pre.isConnected) =>
       /\ thrown = "none"
       /\ sent = << [ s |-> last.pre.ws, frame |-> [ method |-> "ping" ] ] >>
  /\ \A i \in 1..Len(sent) :
       sent[i].frame.method = "ping" => last.op = "ping" /\ last.pre.isConnected
  /\ (last.op = "message" /\ last.arg.ok /\ last.arg.msg.channel = "pong") =>
       /\ emitted = << [ name |-> "pong", data |-> last.arg.msg.data ] >>
       /\ ws = last.pre.ws
       /\ isConnected = last.pre.isConnected
       /\ isLoggedIn = last.pre.isLoggedIn
       /\ pingTimer = last.pre.pingTimer
       /\ scheduled = 0

\* C26: in every state between two handlers a heartbeat timer is live if
\* and only if the session is Connected.
C26_HeartbeatIffConnected == (pingLive > 0) <=> isConnected

\* C26 witness: a Connected session with a live heartbeat has left
\* Connected through a close notification, and no heartbeat timer is live.
C26_Witness ==
  /\ last.op = "close"
  /\ last.pre.isConnected
  /\ last.pre.pingTimer
  /\ ~isConnected
  /\ pingLive = 0

\* C27: once the session starts connecting or becomes Connected no
\* reconnect timer is live: a pending one is cancelled by the caller's
\* connect() and by the open notification.
C27_ReconnectTimerCancelled ==
  last.op \in { "connect", "open" } => reconnectLive = 0

\* The operations that call send().
SendOps == { "login", "ping" } \cup SubscribeOps

\* C28: a send attempted while this.ws is absent or not open throws at once
\* and writes nothing; a frame is written only by the operation that calls
\* send(), at most one per operation, and it is that operation's own
\* message: no handler (open after a reconnect included) writes a frame
\* that an earlier operation failed to send.
C28_NoBuffering ==
  /\ last.op \notin SendOps => sent = <<>>
  /\ Len(sent) <= 1
  /\ thrown # "none" => sent = <<>>
  /\ ( /\ last.op \in SendOps
       /\ last.op = "ping" => last.pre.isConnected
       /\ last.pre.ws = NoSocket \/ sock[last.pre.ws] # "OPEN" ) =>
       thrown # "none" /\ sent = <<>>
  /\ (last.op = "login" /\ Len(sent) = 1) =>
       sent[1] = [ s |-> ws, frame |-> LoginMessage(last.arg.subscribe, last.arg.now) ]

\* C28 witness: login() on a Connected session whose active transport is
\* no longer open was rejected and wrote nothing.
C28_Witness ==
  /\ last.op = "login"
  /\ last.pre.isConnected
  /\ last.pre.ws # NoSocket
  /\ sock[last.pre.ws] # "OPEN"
  /\ thrown = "rejected"
  /\ sent = <<>>

\* C29: handling one inbound message, with whatever it raises (a throwing
\* listener included), throws nothing into the transport layer and leaves
\* the socket open and the status, the active transport and the timers as
\* they were; the login state changes only by a login success.
C29_MessageErrorsIsolated ==
  last.op \in { "message", "messageListenerThrows" } =>
    /\ thrown = "none"
    /\ sock[last.s] \in { "OPEN", "CLOSING" }
    /\ ws = last.pre.ws
    /\ isConnected = last.pre.isConnected
    /\ pingTimer = last.pre.pingTimer
    /\ scheduled = 0
    /\ isLoggedIn # last.pre.isLoggedIn =>
         last.arg.msg.method = "login" /\ last.arg.msg.data.success

\* C30: on a session configured with auto-reconnect on, when the active
\* transport, opened by a connect() made after the last disconnect(),
\* closes unsolicited, a reconnect is scheduled: disconnect() turns
\* auto-reconnect off for the disconnect it performs only.
C30_AutoReconnectRestored ==
  ( /\ last.op = "close"
    /\ last.promise = "resolved"
    /\ last.s = last.pre.ws
    /\ ~afterDisconnect ) =>
    scheduled = 1 /\ reconnectTimer = "pending" /\ reconnectLive = 1

\* C31: every login() call signs afresh: the frame it writes carries the
\* clock value read by that call as reqTime and the HMAC, keyed by the
\* secret, of the apiKey followed by that reqTime; and a login call does not
\* reuse the timestamp of the login call before it.
C31_LoginSignsAfresh ==
  [][ (last'.op = "login" /\ Len(sent') = 1) =>
        /\ sent'[1].frame.param.reqTime = toString(last'.arg.now)
        /\ sent'[1].frame.param.signature =
             createHmac(secretKey, apiKey \o toString(last'.arg.now))
        /\ (last.op = "login" /\ Len(sent) = 1) =>
             sent'[1].frame.param.reqTime # sent[1].frame.param.reqTime ]_vars

\* C32: a close notification of a socket that is not the active transport
\* leaves the connection status, the login status and the heartbeat timer
\* of the session as they were.
C32_StaleCloseIgnored ==
  (last.op = "close" /\ last.s # last.pre.ws) =>
    /\ isConnected = last.pre.isConnected
    /\ isLoggedIn = last.pre.isLoggedIn
    /\ pingTimer = last.pre.pingTimer

\* C33: whenever the session is Connected the active transport handle is an
\* open socket, so a heartbeat tick never sends on an absent or not-open
\* transport and the heartbeat timer callback never raises.
C33_ConnectedMeansOpen ==
  /\ isConnected => ws # NoSocket /\ readyState(sock[ws]) = "OPEN"
  /\ last.op = "ping" => thrown = "none"

\* C34: from disconnect() until the caller's next connect() no handler of
\* the session makes a new socket: the reconnect timer callback and the
\* continuation of a failed reconnect attempt start no connection attempt.
C34_NoConnectAfterDisconnect ==
  [][ (afterDisconnect /\ last'.op # "connect") =>
        /\ \A s \in Sockets : sock[s] = "NONE" => sock'[s] = "NONE"
        /\ ws' \in { ws, NoSocket } ]_vars

\* C34 witness: a reconnect timer scheduled by the failure of a reconnect
\* attempt that disconnect() aborted has fired after the disconnect(), and
\* the session, Disconnected, has made no socket.
C34_Witness ==
  /\ last.op = "reconnect"
  /\ afterDisconnect
  /\ ~last.pre.isConnected
  /\ last.pre.ws = NoSocket
  /\ ws = NoSocket
  /\ \E s \in Sockets : promise[s] = "rejectedCaught"

\* The last message is a login acknowledgment whose payload is absent or
\* does not carry success true.
LastIsLoginFailure ==
  /\ LastIsLoginAck
  /\ ~(last.arg.msg.data.present /\ last.arg.msg.data.success)

\* C35: a login-failure acknowledgment leaves LoggedIn at its prior value;
\* on a session that is logged in with its active transport open, the
\* session is still logged in afterwards and setPersonalFilter and the
\* subscribe helpers are still accepted and write their frame.
C35_LoginFailureKeepsLoggedIn ==
  LastIsLoginFailure =>
    /\ isLoggedIn = last.pre.isLoggedIn
    /\ (last.pre.isLoggedIn /\ ws # NoSocket /\ sock[ws] = "OPEN") =>
         /\ \A filters \in FilterLists :
              /\ ~setPersonalFilter(This, filters).exc
              /\ Len(setPersonalFilter(This, filters).sent) = 1
         /\ \A symbols \in SymbolLists :
              /\ ~subscribeToOrders(This, symbols).exc
              /\ ~subscribeToOrderDeals(This, symbols).exc
              /\ ~subscribeToPositions(This, symbols).exc
         /\ ~subscribeToAssets(This).exc
         /\ ~subscribeToADLLevels(This).exc
         /\ ~subscribeToAll(This).exc

\* C35 witness: a re-login was refused on a logged-in session whose active
\* transport is open; the session is still logged in and subscribeToAll()
\* writes its frame.
C35_Witness ==
  /\ LastIsLoginFailure
  /\ last.pre.isLoggedIn
  /\ isLoggedIn
  /\ last.s = ws
  /\ sock[ws] = "OPEN"
  /\ Len(subscribeToAll(This).sent) = 1

\* C36: LoggedIn becomes true only by a login success acknowledgment that
\* arrives on the socket that is the active transport, after a login frame
\* was written on that connection: not by a message of another socket, and
\* not by a message that arrives right after the active transport's open
\* notification, before any login() call could have written a frame.
C36_LoginOnlyWhenSolicited ==
  [][ (~isLoggedIn /\ isLoggedIn') =>
        /\ last'.op = "message"
        /\ last'.s = ws
        /\ last'.arg.msg.method = "login"
        /\ last'.arg.msg.channel = "rs.login"
        /\ last'.arg.msg.data.success
        /\ ~(last.op = "open" /\ last.s = ws) ]_vars

\* The number of "connected" events emitted so far: one by the open handler
\* of each socket that opened, which is when its promise was resolved.
ConnectedEvents == Cardinality({ s \in Sockets : promise[s] = "resolved" })

\* The number of "disconnected" events emitted so far: one by the close
\* handler of each socket that has closed.
DisconnectedEvents == Cardinality({ s \in Sockets : sock[s] = "CLOSED" })

\* C37: "connected" and "disconnected" events alternate, starting with
\* "connected": at any time the "connected" events are as many as the
\* "disconnected" events or one more, failed attempts included.
C37_EventsAlternate ==
  /\ DisconnectedEvents <= ConnectedEvents
  /\ ConnectedEvents <= DisconnectedEvents + 1

\* C38: the promise of every connect() is settled, once, by the first of
\* the socket's open and error notifications: resolved by open, rejected by
\* error, also when disconnect() aborted the attempt; a settled promise
\* stays as it is, and no socket that has opened, failed or closed has a
\* pending promise.
C38_PromiseSettlesOnce ==
  /\ (last.op = "open" /\ Pending(last.promise)) => promise[last.s] = "resolved"
  /\ (last.op = "error" /\ Pending(last.promise)) =>
       promise[last.s] \in { "rejected", "rejectedCaught" }
  /\ (last.op \in { "open", "error", "close" } /\ ~Pending(last.promise)) =>
       promise[last.s] = last.promise
  /\ \A s \in Sockets :
       sock[s] \in { "OPEN", "CLOSING", "FAILED", "CLOSED" } => ~Pending(promise[s])

\* The session as the constructor leaves its fields.
NewSession ==
  [ This EXCEPT !.ws = NoSocket, !.isConnected = FALSE, !.isLoggedIn = FALSE,
                !.pingTimer = FALSE, !.pingLive = 0,
                !.reconnectTimer = "null", !.reconnectLive = 0 ]

\* The events the router dispatches for one frame taken by itself: those of
\* handleMessage for the decoded message, the "error" event of the catch
\* block for a frame that does not parse.
RoutedEvents(frame) ==
  IF frame.ok THEN handleMessage(NewSession, frame.msg).emitted
  ELSE emitError(NewSession, [ error |-> "SyntaxError", message |-> NoData ]).emitted

====
